---- MODULE Spec2Model ----
(***************************************************************************)
(* Model of src/src/example.ts: the Result and Option wrapper classes.     *)
(* A program holds one Result reference r and one Option reference o; it   *)
(* may (re)construct either and call any accessor on a constructed one.    *)
(* Every constructor and accessor is one atomic action; its outcome        *)
(* (returned value or thrown error) is recorded in `last`.                 *)
(***************************************************************************)
EXTENDS Integers, Sequences, FiniteSets, TLC

\* ---------------------------------------------------------------- bounds
MaxNum == 0      \* numbers 0..MaxNum are used as payload / error values
MaxStack == 3    \* call-stack capacity of the engine, in getter activations

\* ------------------------------------------------ JavaScript value domain
undefined == [type |-> "undefined", n |-> 0, s |-> "", b |-> FALSE]
null == [type |-> "null", n |-> 0, s |-> "", b |-> FALSE]
Num(k) == [type |-> "number", n |-> k, s |-> "", b |-> FALSE]
Str(x) == [type |-> "string", n |-> 0, s |-> x, b |-> FALSE]
Bool(x) == [type |-> "boolean", n |-> 0, s |-> "", b |-> x]
Obj == [type |-> "object", n |-> 0, s |-> "", b |-> FALSE]

NoMessage == "No message has been provided"
Strings == {Str(""), Str("timeout")}
Values == {undefined, null, Bool(FALSE), Obj} \cup {Num(k) : k \in 0..MaxNum} \cup Strings

\* ToBoolean, the coercion applied by the `!` operator
ToBoolean(v) ==
  CASE v.type = "undefined" -> FALSE
    [] v.type = "null" -> FALSE
    [] v.type = "boolean" -> v.b
    [] v.type = "number" -> v.n # 0
    [] v.type = "string" -> v.s # ""
    [] OTHER -> TRUE

\* typeof payload !== 'undefined' && payload !== null
IsPresent(v) == v.type # "undefined" /\ v # null

\* ------------------------------------------------------- thrown messages
ErrCreate == "To create a failed Result provide error"
ErrPayload == "Payload is not available"
ErrError == "No error information is available"
ErrMessage == "No error message is available"
ErrOptPayload == "No payload provided or null"
StackOverflow == "Maximum call stack size exceeded"

InvalidConstruction == {ErrCreate}
InvalidAccess == {ErrPayload, ErrError, ErrMessage, ErrOptPayload}

\* outcome of a call: a returned value or a thrown error, and the number of
\* getter activations that were on the stack at its deepest point
Return(v) == [kind |-> "return", val |-> v, err |-> "", frames |-> 1]
Throw(m) == [kind |-> "throw", val |-> undefined, err |-> m, frames |-> 1]

\* ------------------------------------------------------------ class Result
Fields == {"payload", "error", "message"}
EmptyArgs == [f \in {} |-> undefined]

\* the argument objects: any subset of the three fields may be present
ArgsSet ==
  {a \in UNION {[S -> Values] : S \in SUBSET Fields} :
     "message" \in DOMAIN a => a["message"] \in Strings}

\* field initialisers
ResultInit == [isOK |-> FALSE, payload |-> undefined, error |-> undefined, message |-> Str("")]

ResultConstructorErrorFirst(args) ==
  IF "error" \notin DOMAIN args
  THEN [self |-> ResultInit, out |-> Throw(ErrCreate)]
  ELSE IF "payload" \in DOMAIN args
  THEN [self |-> [ResultInit EXCEPT !.payload = args["payload"], !.isOK = TRUE],
        out |-> Return(undefined)]
  ELSE [self |-> [ResultInit EXCEPT !.error = args["error"],
                                    !.message = IF "message" \in DOMAIN args
                                                THEN args["message"]
                                                ELSE Str(NoMessage)],
        out |-> Return(undefined)]

ResultConstructor(args) ==
  IF "payload" \in DOMAIN args
  THEN [self |-> [ResultInit EXCEPT !.payload = args["payload"], !.isOK = TRUE],
        out |-> Return(undefined)]
  ELSE IF "error" \notin DOMAIN args
  THEN [self |-> ResultInit, out |-> Throw(ErrCreate)]
  ELSE [self |-> [ResultInit EXCEPT !.error = args["error"],
                                    !.message = IF "message" \in DOMAIN args
                                                THEN args["message"]
                                                ELSE Str(NoMessage)],
        out |-> Return(undefined)]

isOKGet(r) == [self |-> r, out |-> Return(Bool(r.isOK))]

payloadGet(r) ==
  [self |-> r,
   out |-> IF ~r.isOK \/ ~ToBoolean(r.payload) THEN Throw(ErrPayload) ELSE Return(r.payload)]

errorGet(r) ==
  [self |-> r,
   out |-> IF r.isOK \/ ~ToBoolean(r.error) THEN Throw(ErrError) ELSE Return(r.error)]

messageGetUnguarded(r, depth) == [self |-> r, out |-> Return(r.message)]

\* get message(): the guard reads this.message, i.e. calls this getter again;
\* depth is the number of activations of the getter already on the stack
RECURSIVE messageGet(_, _)
messageGet(r, depth) ==
  IF r.isOK
  THEN [self |-> r, out |-> [Throw(ErrMessage) EXCEPT !.frames = depth + 1]]
  ELSE IF depth + 1 >= MaxStack
  THEN [self |-> r, out |-> [Throw(StackOverflow) EXCEPT !.frames = depth + 1]]
  ELSE LET inner == messageGet(r, depth + 1) IN
       IF inner.out.kind = "throw"
       THEN inner
       ELSE IF ~ToBoolean(inner.out.val)
       THEN [self |-> inner.self, out |-> [Throw(ErrMessage) EXCEPT !.frames = inner.out.frames]]
       ELSE [self |-> inner.self,
             out |-> [Return(inner.self.message) EXCEPT !.frames = inner.out.frames]]

\* ------------------------------------------------------------ class Option
OptionInit == [isSome |-> FALSE, payload |-> undefined]

OptionConstructorTruthy(payload) ==
  [self |-> [OptionInit EXCEPT !.payload = payload, !.isSome = ToBoolean(payload)],
   out |-> Return(undefined)]

OptionConstructor(payload) ==
  [self |-> [OptionInit EXCEPT !.payload = payload,
                               !.isSome = IF IsPresent(payload) THEN TRUE ELSE @],
   out |-> Return(undefined)]

isSomeGet(o) == [self |-> o, out |-> Return(Bool(o.isSome))]

optPayloadGet(o) ==
  [self |-> o, out |-> IF ~o.isSome THEN Throw(ErrOptPayload) ELSE Return(o.payload)]

unwrapOrNull(o) == [self |-> o, out |-> Return(IF o.isSome THEN o.payload ELSE null)]

unwrapTake(o) ==
  [self |-> [o EXCEPT !.payload = undefined, !.isSome = FALSE], out |-> Return(o.payload)]

unwrap(o) == [self |-> o, out |-> Return(o.payload)]

\* ------------------------------------------------------------------ state
VARIABLES
  res,       \* private fields of the Result instance r refers to
  resLive,   \* r refers to a constructed instance
  resArgs,   \* the argument object that instance was constructed from
  callArgs,  \* the argument object of the latest `new Result(...)`
  opt,       \* private fields of the Option instance o refers to
  optLive,   \* o refers to a constructed instance
  optArg,    \* the value that instance was constructed from
  last       \* the latest call and its outcome

vars == <<res, resLive, resArgs, callArgs, opt, optLive, optArg, last>>

ResultAccessors == {"isOK", "payload", "error", "message"}
OptionAccessors == {"isSome", "optPayload", "unwrap"}
Accessors == ResultAccessors \cup OptionAccessors

Done(op, out) == [op |-> op, kind |-> out.kind, val |-> out.val, err |-> out.err,
                  frames |-> out.frames]

Init ==
  /\ res = ResultInit
  /\ resLive = FALSE
  /\ resArgs = EmptyArgs
  /\ callArgs = EmptyArgs
  /\ opt = OptionInit
  /\ optLive = FALSE
  /\ optArg = undefined
  /\ last = [op |-> "none", kind |-> "none", val |-> undefined, err |-> "", frames |-> 0]

\* r = new Result(args); when the constructor throws, r keeps its old referent
NewResult ==
  \E args \in ArgsSet :
    LET c == ResultConstructor(args) IN
    /\ callArgs' = args
    /\ last' = Done("newResult", c.out)
    /\ IF c.out.kind = "return"
       THEN res' = c.self /\ resLive' = TRUE /\ resArgs' = args
       ELSE UNCHANGED <<res, resLive, resArgs>>
    /\ UNCHANGED <<opt, optLive, optArg>>

\* o = new Option(payload)
NewOption ==
  \E payload \in Values :
    LET c == OptionConstructor(payload) IN
    /\ opt' = c.self
    /\ optLive' = TRUE
    /\ optArg' = payload
    /\ last' = Done("newOption", c.out)
    /\ UNCHANGED <<res, resLive, resArgs, callArgs>>

ResultCall(op, c) ==
  /\ resLive
  /\ res' = c.self
  /\ last' = Done(op, c.out)
  /\ UNCHANGED <<resLive, resArgs, callArgs, opt, optLive, optArg>>

OptionCall(op, c) ==
  /\ optLive
  /\ opt' = c.self
  /\ last' = Done(op, c.out)
  /\ UNCHANGED <<optLive, optArg, res, resLive, resArgs, callArgs>>

GetIsOK == ResultCall("isOK", isOKGet(res))
GetPayload == ResultCall("payload", payloadGet(res))
GetError == ResultCall("error", errorGet(res))
GetMessage == ResultCall("message", messageGet(res, 0))
GetIsSome == OptionCall("isSome", isSomeGet(opt))
GetOptPayload == OptionCall("optPayload", optPayloadGet(opt))
Unwrap == OptionCall("unwrap", unwrap(opt))

Next ==
  \/ NewResult
  \/ NewOption
  \/ GetIsOK
  \/ GetPayload
  \/ GetError
  \/ GetMessage
  \/ GetIsSome
  \/ GetOptPayload
  \/ Unwrap

Spec == Init /\ [][Next]_vars

TypeOK ==
  /\ res \in [isOK : BOOLEAN, payload : Values, error : Values, message : Strings \cup {Str(NoMessage)}]
  /\ resLive \in BOOLEAN
  /\ resArgs \in ArgsSet
  /\ callArgs \in ArgsSet
  /\ opt \in [isSome : BOOLEAN, payload : Values]
  /\ optLive \in BOOLEAN
  /\ optArg \in Values
  /\ last.op \in Accessors \cup {"none", "newResult", "newOption"}

\* ------------------------------------------------------------ properties

\* C1: a Result constructed from {payload: p}, for any present p (falsy ones
\* included), has isOK true and its payload accessor returns p.
C1_PayloadReturnsInput ==
  (resLive /\ "payload" \in DOMAIN resArgs /\ IsPresent(resArgs["payload"])) =>
    /\ res.isOK
    /\ last.op = "payload" => (last.kind = "return" /\ last.val = resArgs["payload"])

\* C2: a Result constructed from {error: e, message: m}, for any present e,
\* has isOK false and its error accessor returns e.
C2_ErrorReturnsInput ==
  (/\ resLive
   /\ DOMAIN resArgs = {"error", "message"}
   /\ IsPresent(resArgs["error"])) =>
    /\ ~res.isOK
    /\ last.op = "error" => (last.kind = "return" /\ last.val = resArgs["error"])

\* C3: on a Failure-variant Result the message accessor returns the supplied
\* message, or the fixed default text when none was supplied.
C3_MessageReturnsStored ==
  (resLive /\ ~res.isOK /\ last.op = "message") =>
    /\ last.kind = "return"
    /\ last.val = IF "message" \in DOMAIN resArgs THEN resArgs["message"] ELSE Str(NoMessage)

\* C4: new Result(args) throws InvalidConstruction exactly when args has neither
\* a payload nor an error field, and otherwise yields the instance built from
\* args; new Option(v) never throws.
C4_ConstructionFailure ==
  /\ last.op = "newResult" =>
       /\ last.kind = "throw" <=> (DOMAIN callArgs \cap {"payload", "error"} = {})
       /\ last.kind = "throw" => last.err \in InvalidConstruction
       /\ last.kind = "return" => (resLive /\ resArgs = callArgs)
  /\ last.op = "newOption" => (last.kind = "return" /\ optLive)

C4_Witness ==
  /\ last.op = "newResult"
  /\ last.kind = "throw"
  /\ DOMAIN callArgs = {"message"}

\* C5: payload on a Failure-variant Result, and error and message on a
\* Success-variant Result, throw InvalidAccess and return nothing.
C5_WrongVariantThrows ==
  /\ (last.op = "payload" /\ ~res.isOK) =>
       (last.kind = "throw" /\ last.err \in InvalidAccess)
  /\ (last.op \in {"error", "message"} /\ res.isOK) =>
       (last.kind = "throw" /\ last.err \in InvalidAccess)

C5_Witness ==
  /\ resLive
  /\ res.isOK
  /\ last.op = "message"
  /\ last.kind = "throw"

\* C6: an Option constructed from a value v that is neither null nor undefined
\* has isSome true, and both payload and unwrap() return v.
C6_SomeHoldsValue ==
  (optLive /\ IsPresent(optArg)) =>
    /\ opt.isSome
    /\ last.op = "isSome" => (last.kind = "return" /\ last.val = Bool(TRUE))
    /\ last.op \in {"optPayload", "unwrap"} => (last.kind = "return" /\ last.val = optArg)

C6_Witness ==
  /\ optLive
  /\ optArg = Bool(FALSE)
  /\ last.op = "optPayload"
  /\ last.kind = "return"

\* C7: an Option constructed from null or undefined has isSome false, its
\* payload accessor throws InvalidAccess, and unwrap() returns that same sentinel.
C7_NoneKeepsSentinel ==
  (optLive /\ ~IsPresent(optArg)) =>
    /\ ~opt.isSome
    /\ last.op = "isSome" => (last.kind = "return" /\ last.val = Bool(FALSE))
    /\ last.op = "optPayload" => (last.kind = "throw" /\ last.err \in InvalidAccess)
    /\ last.op = "unwrap" => (last.kind = "return" /\ last.val = optArg)

C7_Witness ==
  /\ optLive
  /\ optArg = undefined
  /\ last.op = "unwrap"
  /\ last.kind = "return"

\* C8: an accessor call, failing or not, changes no stored field of either
\* instance, and a repeated accessor call has the same outcome as before.
C8_AccessorsFrame ==
  [][last'.op \in Accessors =>
       /\ res' = res /\ resLive' = resLive
       /\ opt' = opt /\ optLive' = optLive
       /\ last.op = last'.op => last' = last]_vars

C8_Witness ==
  /\ optLive
  /\ ~opt.isSome
  /\ last.op = "optPayload"
  /\ last.kind = "throw"

\* C9: a constructed Result has exactly one side populated: the payload and
\* neither error nor message, or error and message and no payload.
PayloadSide(r) == r.payload # undefined
FailureSide(r) == r.error # undefined /\ r.message.type = "string"
NoFailureSide(r) == r.error = undefined /\ r.message = Str("")

C9_ExactlyOneSide ==
  resLive =>
    \/ PayloadSide(res) /\ NoFailureSide(res)
    \/ FailureSide(res) /\ ~PayloadSide(res)

\* C10: every accessor call finishes in a single activation, returning a value
\* or throwing InvalidAccess; no accessor re-enters itself.
C10_SingleStep ==
  last.op \in Accessors =>
    /\ last.frames = 1
    /\ last.kind = "return" \/ last.err \in InvalidAccess
====
